---- MODULE Spec2Model ----
(***************************************************************************)
(* quickwit-search/src/thread_pool.rs: run_cpu_intensive on the process-   *)
(* wide rayon pool held in SEARCH_THREAD_POOL.                             *)
(*                                                                         *)
(* Callers are futures of `run_cpu_intensive` (one per submission, named   *)
(* by a task id); workers are the rayon threads of the pool built by       *)
(* build_executor.  A caller and a worker talk through the oneshot channel *)
(* that Executor::spawn_blocking creates: the worker owns the sender, the  *)
(* awaiting future owns the receiver.                                      *)
(***************************************************************************)
EXTENDS Integers, Sequences, FiniteSets, TLC

\* Bounds of the model.
NumTasks == 2        \* submissions (futures of run_cpu_intensive)
NumWorkers == 1      \* threads of the rayon pool (num_cpus in the program)

Tasks == 1..NumTasks
Workers == 1..NumWorkers
Pools == 1..NumTasks  \* a pool is named by its rank among build_executor runs

\* F: FnOnce() -> R.  A computation either panics or returns a value; the value
\* of the computation submitted by t is t, so that values tell submissions apart.
Computations(t) == {[panics |-> TRUE, val |-> 0], [panics |-> FALSE, val |-> t]}

\* Result<R, Panicked> as seen by the caller; Pending: the future has not resolved.
Pending == [tag |-> "Pending", val |-> 0]
Ok(v) == [tag |-> "Ok", val |-> v]
ErrPanicked == [tag |-> "Err", val |-> 0]

VARIABLES
    cell,            \* SEARCH_THREAD_POOL: 0 = empty, else the pool it holds
    initializing,    \* the caller running build_executor inside get_or_init, or 0
    pools_built,     \* number of pools build_executor has built
    handle,          \* handle[t]: the Arc<Executor> search_executor() gave t (0: none)
    cpu_heavy_task,  \* cpu_heavy_task[t]: the computation submitted by t
    fut,             \* fut[t]: where the future of run_cpu_intensive stands
    result,          \* result[t]: what the future resolved to
    queue,           \* queue[p]: jobs spawned on pool p and not yet picked, FIFO
    rx_dropped,      \* rx_dropped[t]: the receiver is dropped (sender.is_closed())
    tx_dropped,      \* tx_dropped[t]: the sender is dropped without a value
    chan_val,        \* chan_val[t]: the value sent on the channel (0: none)
    wpc,             \* wpc[w]: position of worker w in its job
    job,             \* job[w]: the task worker w holds (0: none)
    task_result,     \* task_result[w]: value the computation returned (0: none / panic)
    entered,         \* entered[w]: the span worker w has entered (0: none)
    active_search_threads_count,  \* the gauge
    alive,           \* worker threads of the pool still serving its queue
    panic_logs,      \* panic_logs[t]: diagnostics the pool panic handler logged for t
    state,           \* state[t]: the task's state (see TaskStates)
    invoked,         \* invoked[t]: number of times t's computation was called
    ran_on,          \* ran_on[t]: the thread that called t's computation (0: none)
    events,          \* events[t]: what the worker did for t, in order
    abandoned_in,    \* abandoned_in[t]: where t stood when its caller dropped the future
    early_finish     \* some computation ended while a caller was still interested

vars == <<cell, initializing, pools_built, handle, cpu_heavy_task, fut, result,
          queue, rx_dropped, tx_dropped, chan_val, wpc, job, task_result, entered,
          active_search_threads_count, alive, panic_logs, state, invoked, ran_on,
          events, abandoned_in, early_finish>>

pool_vars == <<cell, initializing, pools_built, handle>>
chan_vars == <<rx_dropped, tx_dropped, chan_val>>
worker_vars == <<wpc, job, task_result, entered, alive>>
caller_vars == <<fut, result, abandoned_in>>

\* The task state machine of the submission API.  "None": nothing was spawned yet.
TaskStates == {"None", "Queued", "Running", "Completed", "Panicked", "Cancelled"}
FutStates == {"created", "building", "spawning", "awaiting", "resolved", "dropped"}
WorkerPcs == {"idle", "check", "exec", "send", "unwind", "handler"}

\* The worker (if any) holding task t.
Holder(t) == {w \in Workers : job[w] = t}

\* Where a task stands for its caller, recorded when the future is dropped.
Standing(t) ==
    IF state[t] = "Queued" /\ Holder(t) # {} THEN "Picked" ELSE state[t]

\* A bug: run_cpu_intensive is no async fn and spawns when it is called: the
\* futures exist, unpolled, with their jobs already on the queue.
InitEager ==
    /\ cell = 1
    /\ initializing = 0
    /\ pools_built = 1
    /\ handle = [t \in Tasks |-> 1]
    /\ cpu_heavy_task \in {f \in [Tasks -> UNION {Computations(t) : t \in Tasks}] :
                              \A t \in Tasks : f[t] \in Computations(t)}
    /\ fut = [t \in Tasks |-> "created"]
    /\ result = [t \in Tasks |-> Pending]
    /\ queue = [p \in Pools |-> IF p = 1 THEN [i \in 1..NumTasks |-> i] ELSE <<>>]
    /\ rx_dropped = [t \in Tasks |-> FALSE]
    /\ tx_dropped = [t \in Tasks |-> FALSE]
    /\ chan_val = [t \in Tasks |-> 0]
    /\ wpc = [w \in Workers |-> "idle"]
    /\ job = [w \in Workers |-> 0]
    /\ task_result = [w \in Workers |-> 0]
    /\ entered = [w \in Workers |-> 0]
    /\ active_search_threads_count = 0
    /\ alive = Workers
    /\ panic_logs = [t \in Tasks |-> 0]
    /\ state = [t \in Tasks |-> "Queued"]
    /\ invoked = [t \in Tasks |-> 0]
    /\ ran_on = [t \in Tasks |-> 0]
    /\ events = [t \in Tasks |-> <<>>]
    /\ abandoned_in = [t \in Tasks |-> "No"]
    /\ early_finish = FALSE

\* The state once the futures are made by calling run_cpu_intensive: an async fn
\* runs none of its body before the first poll, so nothing else exists yet.
Init ==
    /\ cell = 0
    /\ initializing = 0
    /\ pools_built = 0
    /\ handle = [t \in Tasks |-> 0]
    /\ cpu_heavy_task \in {f \in [Tasks -> UNION {Computations(t) : t \in Tasks}] :
                              \A t \in Tasks : f[t] \in Computations(t)}
    /\ fut = [t \in Tasks |-> "created"]
    /\ result = [t \in Tasks |-> Pending]
    /\ queue = [p \in Pools |-> <<>>]
    /\ rx_dropped = [t \in Tasks |-> FALSE]
    /\ tx_dropped = [t \in Tasks |-> FALSE]
    /\ chan_val = [t \in Tasks |-> 0]
    /\ wpc = [w \in Workers |-> "idle"]
    /\ job = [w \in Workers |-> 0]
    /\ task_result = [w \in Workers |-> 0]
    /\ entered = [w \in Workers |-> 0]
    /\ active_search_threads_count = 0
    /\ alive = Workers
    /\ panic_logs = [t \in Tasks |-> 0]
    /\ state = [t \in Tasks |-> "None"]
    /\ invoked = [t \in Tasks |-> 0]
    /\ ran_on = [t \in Tasks |-> 0]
    /\ events = [t \in Tasks |-> <<>>]
    /\ abandoned_in = [t \in Tasks |-> "No"]
    /\ early_finish = FALSE

----------------------------------------------------------------------------
\* The caller: the future of run_cpu_intensive.

\* A bug: a check-then-set initialization, with nothing to keep a second caller out.
may_initialize_unguarded == TRUE

\* OnceCell lets one caller at a time run the initializer.
may_initialize == initializing = 0

\* OnceCell::get_or_init as seen by caller t on the first poll of its future:
\* a full cell is read; an empty one makes t the initializer, unless another
\* caller already is (then t blocks until the cell is full).
get_or_init(t) ==
    /\ fut[t] = "created"
    /\ \/ /\ cell # 0
          /\ handle' = [handle EXCEPT ![t] = cell]
          /\ fut' = [fut EXCEPT ![t] = "spawning"]
          /\ UNCHANGED initializing
       \/ /\ cell = 0
          /\ may_initialize
          /\ initializing' = t
          /\ fut' = [fut EXCEPT ![t] = "building"]
          /\ UNCHANGED handle
    /\ UNCHANGED <<cell, pools_built, cpu_heavy_task, result, abandoned_in, queue,
                   chan_vars, worker_vars, active_search_threads_count, panic_logs,
                   state, invoked, ran_on, events, early_finish>>

\* build_executor, run by the initializer; the cell takes the new pool and
\* search_executor returns a clone of the handle.
build_executor(t) ==
    /\ fut[t] = "building"
    /\ pools_built' = pools_built + 1
    /\ cell' = pools_built + 1
    /\ initializing' = 0
    /\ handle' = [handle EXCEPT ![t] = pools_built + 1]
    /\ fut' = [fut EXCEPT ![t] = "spawning"]
    /\ UNCHANGED <<cpu_heavy_task, result, abandoned_in, queue, chan_vars, worker_vars,
                   active_search_threads_count, panic_logs, state, invoked, ran_on, events,
                   early_finish>>

\* A bug: the executor is Executor::SingleThread, whose spawn_blocking calls the
\* computation in place, on the thread that polls the future (named -t here).
spawn_blocking_single_thread(t) ==
    /\ fut[t] = "spawning"
    /\ invoked' = [invoked EXCEPT ![t] = @ + 1]
    /\ ran_on' = [ran_on EXCEPT ![t] = 0 - t]
    /\ state' = [state EXCEPT ![t] =
                   IF cpu_heavy_task[t].panics THEN "Panicked" ELSE "Completed"]
    /\ chan_val' = [chan_val EXCEPT ![t] = cpu_heavy_task[t].val]
    /\ tx_dropped' = [tx_dropped EXCEPT ![t] = cpu_heavy_task[t].panics]
    /\ fut' = [fut EXCEPT ![t] = "awaiting"]
    /\ UNCHANGED <<pool_vars, cpu_heavy_task, result, abandoned_in, queue, rx_dropped,
                   worker_vars, active_search_threads_count, panic_logs, events,
                   early_finish>>

\* Executor::spawn_blocking: a oneshot channel is made, the job is pushed on the
\* queue of the pool the handle names, and the future awaits the receiver.
spawn_blocking(t) ==
    /\ fut[t] = "spawning"
    /\ queue' = [queue EXCEPT ![handle[t]] = Append(@, t)]
    /\ state' = [state EXCEPT ![t] = "Queued"]
    /\ fut' = [fut EXCEPT ![t] = "awaiting"]
    /\ UNCHANGED <<pool_vars, cpu_heavy_task, result, abandoned_in, chan_vars,
                   worker_vars, active_search_threads_count, panic_logs, invoked,
                   ran_on, events, early_finish>>

\* A bug: the receive error is unwrapped, and the worker's panic resumes on the caller.
ReceivedResumesPanic(t) ==
    IF chan_val[t] # 0 THEN Ok(chan_val[t]) ELSE [tag |-> "Panic", val |-> 0]

\* What the awaited receiver gives once it is ready: the value sent, or an error
\* when the sender was dropped without sending, which map_err turns into Panicked.
Received(t) ==
    IF chan_val[t] # 0 THEN Ok(chan_val[t]) ELSE ErrPanicked

\* A bug: a result is delivered whether or not the future still exists.
AwaitedOrDropped(t) == fut[t] \in {"awaiting", "dropped"}

\* The future is being awaited: it was polled and is neither resolved nor dropped.
Awaited(t) == fut[t] = "awaiting"

\* A bug: a sender dropped unsent does not wake the receiver.
ready_on_value_only(t) == chan_val[t] # 0

\* The receiver is ready: a value was sent, or the sender was dropped unsent.
ready(t) == chan_val[t] # 0 \/ tx_dropped[t]

\* .await.map_err(|_| Panicked) (lines 86-87): the future resolves when the
\* receiver is ready.
Resolve(t) ==
    /\ Awaited(t)
    /\ ready(t)
    /\ result' = [result EXCEPT ![t] = Received(t)]
    /\ fut' = [fut EXCEPT ![t] = "resolved"]
    /\ UNCHANGED <<pool_vars, cpu_heavy_task, abandoned_in, queue, chan_vars,
                   worker_vars, active_search_threads_count, panic_logs, state,
                   invoked, ran_on, events, early_finish>>

\* A bug: the receiver outlives the future that awaited it.
receiver_dropped_leaked(t) == FALSE

\* Dropping the future drops the receiver it awaits, if it has one.
receiver_dropped(t) == fut[t] = "awaiting"

\* The caller drops the future (a timeout, a cancelled scope).  A future that was
\* never polled owns nothing; one that awaits owns the receiver, which closes.
Abandon(t) ==
    /\ fut[t] \in {"created", "awaiting"}
    /\ rx_dropped' = [rx_dropped EXCEPT ![t] = receiver_dropped(t)]
    /\ abandoned_in' = [abandoned_in EXCEPT ![t] = Standing(t)]
    /\ fut' = [fut EXCEPT ![t] = "dropped"]
    /\ UNCHANGED <<pool_vars, cpu_heavy_task, result, queue, tx_dropped, chan_val,
                   worker_vars, active_search_threads_count, panic_logs, state,
                   invoked, ran_on, events, early_finish>>

----------------------------------------------------------------------------
\* The workers: the threads of the rayon pool built first (pool 1).  Each runs
\* the job closure of Executor::spawn_blocking around the closure of
\* run_cpu_intensive (lines 79-85).  What a thread does to nothing but its own
\* locals is taken in one step with the shared access that comes before it.

\* A bug: a job never waits for a thread of the pool (a thread per job).
free_always(w) == wpc[w] \in {"idle", "exec"}

\* A thread of the pool is free when it runs no job.
free(w) == wpc[w] = "idle"

\* A free thread takes the oldest job of its pool's queue.
Pick(w) ==
    /\ w \in alive
    /\ free(w)
    /\ pools_built >= 1
    /\ queue[1] # <<>>
    /\ job' = [job EXCEPT ![w] = Head(queue[1])]
    /\ queue' = [queue EXCEPT ![1] = Tail(@)]
    /\ wpc' = [wpc EXCEPT ![w] = "check"]
    /\ UNCHANGED <<pool_vars, cpu_heavy_task, caller_vars, chan_vars, task_result,
                   entered, alive, active_search_threads_count, panic_logs, state,
                   invoked, ran_on, events, early_finish>>

\* A bug: the job runs without asking whether anyone still awaits it.
is_closed_unchecked(t) == FALSE

\* A bug: the test is inverted, and the jobs still awaited are the ones skipped.
is_closed_negated(t) == ~rx_dropped[t]

\* sender.is_closed(): the receiver of t's channel is dropped.
is_closed(t) == rx_dropped[t]

\* A bug: a skipped job keeps its thread (it waits on the channel nobody reads).
pc_after_skip_blocked(w) == "blocked"

\* A skipped job returns at once: its thread is free again.
pc_after_skip(w) == "idle"

\* A bug: the span is taken inside the closure, where it is the worker's own.
span_of_worker(t) == 0

\* let span = tracing::Span::current() (line 77), evaluated by the caller on the
\* first poll and moved into the closure: the span of submission t is named t.
span(t) == t

\* A bug: the gauge guard is declared before the span is entered.
closure_entry_gauge_first == <<"inc", "enter">>

\* Lines 80-83 in order: the span is entered, then the gauge guard adds 1.
closure_entry == <<"enter", "inc">>

\* "Before the task is effectively scheduled, we check that the spawner is still
\* interested by its result" (lines 64-65): with the receiver dropped the job
\* returns at once and its sender is dropped with it.  Otherwise the closure of
\* lines 79-85 starts: span.enter() (line 80), then the gauge guard adds 1
\* (lines 81-83), and the computation is running.
Check(w) ==
    /\ wpc[w] = "check"
    /\ \/ /\ is_closed(job[w])
          /\ state' = [state EXCEPT ![job[w]] = "Cancelled"]
          /\ tx_dropped' = [tx_dropped EXCEPT ![job[w]] = TRUE]
          /\ wpc' = [wpc EXCEPT ![w] = pc_after_skip(w)]
          /\ job' = [job EXCEPT ![w] = 0]
          /\ UNCHANGED <<entered, active_search_threads_count, events>>
       \/ /\ ~is_closed(job[w])
          /\ entered' = [entered EXCEPT ![w] = span(job[w])]
          /\ active_search_threads_count' = active_search_threads_count + 1
          /\ events' = [events EXCEPT ![job[w]] = @ \o closure_entry]
          /\ state' = [state EXCEPT ![job[w]] = "Running"]
          /\ wpc' = [wpc EXCEPT ![w] = "exec"]
          /\ UNCHANGED <<tx_dropped, job>>
    /\ UNCHANGED <<pool_vars, cpu_heavy_task, caller_vars, queue, rx_dropped, chan_val,
                   task_result, alive, panic_logs, invoked, ran_on, early_finish>>

\* A bug: the gauge is taken down by hand after the call, which a panic skips.
gauge_after_call_no_guard(w) ==
    IF cpu_heavy_task[job[w]].panics THEN active_search_threads_count
    ELSE active_search_threads_count - 1

\* The gauge once GaugeGuard is dropped, on return and on unwinding alike.
gauge_after_call(w) == active_search_threads_count - 1

\* A bug: a running computation is interrupted when its caller has gone.
state_after_call_interruptible(w) ==
    IF rx_dropped[job[w]] THEN "Cancelled"
    ELSE IF cpu_heavy_task[job[w]].panics THEN "Panicked" ELSE "Completed"

\* The task's state once the computation has ended.
state_after_call(w) ==
    IF cpu_heavy_task[job[w]].panics THEN "Panicked" ELSE "Completed"

\* cpu_heavy_task() (line 84) runs on the worker to its value or its panic, and
\* the closure ends, by return or by unwinding: its locals are dropped in reverse
\* order of declaration, active_thread_guard first (the gauge goes down by what
\* the guard added), then _guard (the span is exited).
Exec(w) ==
    /\ wpc[w] = "exec"
    /\ invoked' = [invoked EXCEPT ![job[w]] = @ + 1]
    /\ ran_on' = [ran_on EXCEPT ![job[w]] = w]
    /\ task_result' = [task_result EXCEPT ![w] = cpu_heavy_task[job[w]].val]
    /\ early_finish' = (early_finish \/ \E t \in Tasks : fut[t] # "dropped")
    /\ active_search_threads_count' = gauge_after_call(w)
    /\ entered' = [entered EXCEPT ![w] = 0]
    /\ events' = [events EXCEPT ![job[w]] = @ \o <<"call", "dec", "exit">>]
    /\ state' = [state EXCEPT ![job[w]] = state_after_call(w)]
    /\ wpc' = [wpc EXCEPT ![w] =
                 IF cpu_heavy_task[job[w]].panics THEN "unwind" ELSE "send"]
    /\ UNCHANGED <<pool_vars, cpu_heavy_task, caller_vars, queue, chan_vars, job,
                   alive, panic_logs>>

\* A bug: the job ends without sending, and its sender is dropped unsent.
sent_nothing(w) == 0

\* What send leaves in the channel: the value, unless the receiver is dropped.
sent(w) == IF rx_dropped[job[w]] THEN 0 ELSE task_result[w]

\* let _ = sender.send(task_result): the value reaches the channel if the receiver
\* is still there and is dropped otherwise; the job is over.
Send(w) ==
    /\ wpc[w] = "send"
    /\ chan_val' = [chan_val EXCEPT ![job[w]] = sent(w)]
    /\ tx_dropped' = [tx_dropped EXCEPT ![job[w]] = (sent(w) = 0)]
    /\ wpc' = [wpc EXCEPT ![w] = "idle"]
    /\ job' = [job EXCEPT ![w] = 0]
    /\ task_result' = [task_result EXCEPT ![w] = 0]
    /\ UNCHANGED <<pool_vars, cpu_heavy_task, caller_vars, queue, rx_dropped,
                   entered, alive, active_search_threads_count,
                   panic_logs, state, invoked, ran_on, events, early_finish>>

\* Unwinding goes on through the job closure: the sender is dropped unsent, which
\* wakes the receiver with an error.
DropSender(w) ==
    /\ wpc[w] = "unwind"
    /\ tx_dropped' = [tx_dropped EXCEPT ![job[w]] = TRUE]
    /\ wpc' = [wpc EXCEPT ![w] = "handler"]
    /\ UNCHANGED <<pool_vars, cpu_heavy_task, caller_vars, queue, rx_dropped, chan_val,
                   job, task_result, entered, alive, active_search_threads_count,
                   panic_logs, state, invoked, ran_on, events, early_finish>>

\* A bug: a panic that reaches the pool takes the worker thread with it.
threads_after_panic_lost(w) == alive \ {w}

\* The threads of the pool after one of them handed a panic to panic_handler.
threads_after_panic(w) == alive

\* A bug: a job that panicked is pushed back on the queue to be tried again.
queue_after_panic_retry(w) == [queue EXCEPT ![1] = Append(@, job[w])]

\* The queue after a panic: the job is over, nothing is pushed back.
queue_after_panic(w) == queue

\* A bug: the diagnostic is tied to the caller, and skipped when it has gone.
logged_after_panic_if_awaited(w) ==
    IF rx_dropped[job[w]] THEN panic_logs[job[w]] ELSE panic_logs[job[w]] + 1

\* error!("task running in the quickwit search pool panicked") (line 34).
logged_after_panic(w) == panic_logs[job[w]] + 1

\* The pool's panic_handler (lines 33-35) gets the panic: it logs, and the thread
\* goes back to serving the queue.
panic_handler(w) ==
    /\ wpc[w] = "handler"
    /\ panic_logs' = [panic_logs EXCEPT ![job[w]] = logged_after_panic(w)]
    /\ alive' = threads_after_panic(w)
    /\ queue' = queue_after_panic(w)
    /\ wpc' = [wpc EXCEPT ![w] = "idle"]
    /\ job' = [job EXCEPT ![w] = 0]
    /\ UNCHANGED <<pool_vars, cpu_heavy_task, caller_vars, chan_vars,
                   task_result, entered, active_search_threads_count, state,
                   invoked, ran_on, events, early_finish>>

----------------------------------------------------------------------------
Next ==
    \/ \E t \in Tasks : get_or_init(t)
    \/ \E t \in Tasks : build_executor(t)
    \/ \E t \in Tasks : spawn_blocking(t)
    \/ \E t \in Tasks : Resolve(t)
    \/ \E t \in Tasks : Abandon(t)
    \/ \E w \in Workers : Pick(w)
    \/ \E w \in Workers : Check(w)
    \/ \E w \in Workers : Exec(w)
    \/ \E w \in Workers : Send(w)
    \/ \E w \in Workers : DropSender(w)
    \/ \E w \in Workers : panic_handler(w)

Spec == Init /\ [][Next]_vars

TypeOK ==
    /\ cell \in 0..NumTasks
    /\ initializing \in 0..NumTasks
    /\ pools_built \in 0..NumTasks
    /\ handle \in [Tasks -> 0..NumTasks]
    /\ \A t \in Tasks : cpu_heavy_task[t] \in Computations(t)
    /\ fut \in [Tasks -> FutStates]
    /\ queue \in [Pools -> Seq(Tasks)]
    /\ rx_dropped \in [Tasks -> BOOLEAN]
    /\ tx_dropped \in [Tasks -> BOOLEAN]
    /\ chan_val \in [Tasks -> 0..NumTasks]
    /\ wpc \in [Workers -> WorkerPcs]
    /\ job \in [Workers -> 0..NumTasks]
    /\ task_result \in [Workers -> 0..NumTasks]
    /\ entered \in [Workers -> 0..NumTasks]
    /\ active_search_threads_count \in Int
    /\ alive \subseteq Workers
    /\ panic_logs \in [Tasks -> Nat]
    /\ state \in [Tasks -> TaskStates]
    /\ invoked \in [Tasks -> Nat]
    /\ ran_on \in [Tasks -> 0..NumWorkers]
    /\ early_finish \in BOOLEAN

----------------------------------------------------------------------------
\* Fairness: the threads of the pool keep running (each step of a worker that
\* can be taken is taken), a poll that has started goes on to its end, and the
\* runtime polls again a future whose receiver is ready.  Nothing makes a
\* caller poll a future for the first time, nor drop it.
FairSpec ==
    /\ Spec
    /\ \A w \in Workers :
         /\ WF_vars(Pick(w))
         /\ WF_vars(Check(w))
         /\ WF_vars(Exec(w))
         /\ WF_vars(Send(w))
         /\ WF_vars(DropSender(w))
         /\ WF_vars(panic_handler(w))
    /\ \A t \in Tasks :
         /\ WF_vars(build_executor(t))
         /\ WF_vars(spawn_blocking(t))
         /\ WF_vars(Resolve(t))

----------------------------------------------------------------------------
\* Derived notions used by the properties.

RECURSIVE SumOver(_, _)
SumOver(f, S) ==
    IF S = {} THEN 0
    ELSE LET x == CHOOSE y \in S : TRUE IN f[x] + SumOver(f, S \ {x})

\* Number of times `e` occurs in the sequence `sq`.
Count(sq, e) == Cardinality({i \in 1..Len(sq) : sq[i] = e})

RunningTasks == {t \in Tasks : state[t] = "Running"}
Submitted == {t \in Tasks : state[t] # "None"}
Terminal == {"Completed", "Panicked", "Cancelled"}
\* Computations executed so far (the shared counter of test_run_cpu_intensive_abort).
Executed == SumOver(invoked, Tasks)

----------------------------------------------------------------------------
\* C1: a non-panicking computation whose caller keeps awaiting resolves to
\* Ok(v), v being the value that very computation returned: the future never
\* resolves to Err or to another value, and, once the computation has returned,
\* the caller eventually holds Ok(v) unless it drops the future.
C1_ResolvesToOkOfOwnValue ==
    /\ [](\A t \in Tasks :
           ~cpu_heavy_task[t].panics /\ fut[t] = "resolved"
             => result[t] = Ok(cpu_heavy_task[t].val))
    /\ \A t \in Tasks :
         (~cpu_heavy_task[t].panics /\ state[t] = "Completed" /\ fut[t] = "awaiting")
           ~> (fut[t] = "dropped" \/ result[t] = Ok(cpu_heavy_task[t].val))

C1_Witness ==
    \E t \in Tasks :
      /\ ~cpu_heavy_task[t].panics
      /\ invoked[t] = 1
      /\ fut[t] = "resolved"
      /\ result[t] = Ok(t)

\* C2: a computation that panics on the worker makes the future resolve to
\* Err(Panicked): the caller is neither left suspended (once the task has panicked
\* the caller eventually holds Err(Panicked), unless it drops the future) nor
\* does it get anything but the error value.
C2_PanicResolvesToErr ==
    /\ [](\A t \in Tasks :
           /\ fut[t] \in FutStates
           /\ result[t] \in {Pending, ErrPanicked} \cup {Ok(u) : u \in Tasks}
           /\ cpu_heavy_task[t].panics /\ fut[t] = "resolved" => result[t] = ErrPanicked)
    /\ \A t \in Tasks :
         (state[t] = "Panicked" /\ fut[t] = "awaiting")
           ~> (fut[t] = "dropped" \/ result[t] = ErrPanicked)

C2_Witness ==
    \E t \in Tasks :
      /\ cpu_heavy_task[t].panics
      /\ state[t] = "Panicked"
      /\ fut[t] = "resolved"
      /\ result[t] = ErrPanicked

C4_AbandonedWhileQueuedNeverRuns ==
    \A t \in Tasks :
      abandoned_in[t] \in {"Queued", "Picked"} =>
        /\ state[t] \in {"Queued", "Cancelled"}
        /\ invoked[t] = 0
        /\ ran_on[t] = 0
        /\ Count(events[t], "inc") = 0
        /\ \A w \in Workers : job[w] = t => wpc[w] = "check"
        /\ state[t] = "Cancelled" => Holder(t) = {}

C4_Witness ==
    \E t \in Tasks :
      /\ abandoned_in[t] = "Queued"
      /\ state[t] = "Cancelled"
      /\ invoked[t] = 0

\* C5: the state of a task only moves Queued -> Running -> {Completed, Panicked}
\* or Queued -> Cancelled; a task whose caller dropped the future while it was
\* Running is never Cancelled: it ends Completed or Panicked after exactly one
\* call of its computation, and nothing of it reaches the channel or the caller.
TaskEdges ==
    {<<"None", "Queued">>, <<"Queued", "Running">>, <<"Queued", "Cancelled">>,
     <<"Running", "Completed">>, <<"Running", "Panicked">>}

C5_TaskStateMachine ==
    [][\A t \in Tasks :
         /\ state'[t] # state[t] => <<state[t], state'[t]>> \in TaskEdges
         /\ abandoned_in'[t] = "Running" =>
              /\ state'[t] \in {"Running", "Completed", "Panicked"}
              /\ state'[t] # "Running" => invoked'[t] = 1
              /\ chan_val'[t] = 0
              /\ result'[t] = Pending]_vars

\* Dropped while Running: ran to its end, the thread is released, nothing was sent.
C5_Witness ==
    \E t \in Tasks :
      /\ abandoned_in[t] = "Running"
      /\ state[t] = "Completed"
      /\ Holder(t) = {}
      /\ chan_val[t] = 0

\* C6: when more tasks were submitted than the pool has threads and every caller
\* dropped its future before any computation ended, at most NumWorkers
\* computations are ever executed, fewer than were submitted; and a task that
\* was still queued when its caller dropped the future is never executed.
C6_AbandonedBacklogNeverRuns ==
    /\ ((\A t \in Tasks : fut[t] = "dropped")
          /\ ~early_finish
          /\ Cardinality(Submitted) > NumWorkers)
         => (Executed <= NumWorkers /\ Executed < Cardinality(Submitted))
    /\ \A t \in Tasks :
         abandoned_in[t] \in {"None", "Queued", "Picked"} => invoked[t] = 0

\* Every thread ran one computation, the rest of the backlog was drained unrun.
C6_Witness ==
    /\ \A t \in Tasks : fut[t] = "dropped"
    /\ ~early_finish
    /\ Cardinality(Submitted) > NumWorkers
    /\ Executed = NumWorkers
    /\ \A t \in Submitted : state[t] \in Terminal
    /\ \A w \in Workers : wpc[w] = "idle"

\* C7: at most NumWorkers tasks are Running at once, each on a thread of its own.
C7_RunningBoundedByWorkers ==
    /\ Cardinality(RunningTasks) <= NumWorkers
    /\ \A t \in RunningTasks : Cardinality(Holder(t)) = 1

\* Every thread runs a task while another submission waits in the queue.
C7_Witness ==
    /\ Cardinality(RunningTasks) = NumWorkers
    /\ queue[1] # <<>>

\* C8: build_executor's pool is installed at most once, and every caller of
\* search_executor gets a handle to the pool the cell holds: no job is ever
\* pushed on another pool.
C8_PoolInitializedOnce ==
    /\ pools_built <= 1
    /\ cell \in {0, 1}
    /\ \A t \in Tasks : handle[t] # 0 => handle[t] = cell
    /\ \A p \in Pools : p # 1 => queue[p] = <<>>
    /\ initializing # 0 => cell = 0

\* Every caller went through search_executor and holds the one pool.
C8_Witness ==
    /\ pools_built = 1
    /\ \A t \in Tasks : handle[t] = 1 /\ state[t] # "None"

\* C9: the gauge goes up once when a task becomes Running and down once when
\* its execution ends, by return or by panic, awaited or not: it always equals
\* the number of Running tasks, and is 0 when no task is Running.
C9_GaugePairing ==
    /\ active_search_threads_count = Cardinality(RunningTasks)
    /\ \A t \in Tasks :
         /\ Count(events[t], "inc") =
              (IF state[t] \in {"Running", "Completed", "Panicked"} THEN 1 ELSE 0)
         /\ Count(events[t], "dec") =
              (IF state[t] \in {"Completed", "Panicked"} THEN 1 ELSE 0)

\* A burst of a panicked task and a completed one whose caller had gone: no drift.
C9_Witness ==
    \E t1, t2 \in Tasks :
      /\ state[t1] = "Panicked"
      /\ state[t2] = "Completed"
      /\ abandoned_in[t2] = "Running"
      /\ \A t \in Tasks : state[t] \in Terminal
      /\ active_search_threads_count = 0

\* C10: a caller that dropped the future gets no value for that submission,
\* whatever the task's state was then: the future stays dropped and unresolved.
C10_AbandonerGetsNothing ==
    [][\A t \in Tasks :
         /\ fut'[t] = "dropped" => result'[t] = Pending
         /\ fut[t] = "dropped" => fut'[t] = "dropped"]_vars

\* The value was already in the channel when the caller dropped the future.
C10_Witness ==
    \E t \in Tasks :
      /\ fut[t] = "dropped"
      /\ abandoned_in[t] = "Completed"
      /\ chan_val[t] = t
      /\ result[t] = Pending

\* C11: under fair scheduling, a submitted task whose caller does not drop the
\* future is eventually taken by a thread of the pool, whatever tasks are queued
\* before it, panic or are skipped, and its future eventually resolves, to Ok or
\* to Err(Panicked).
C11_AwaitedTaskEventuallyResolves ==
    /\ [](\A t \in Tasks :
           fut[t] = "resolved" =>
             /\ result[t].tag \in {"Ok", "Err"}
             /\ state[t] \in {"Completed", "Panicked"}
             /\ ran_on[t] \in Workers)
    /\ \A t \in Tasks :
         (fut[t] = "awaiting") ~> (fut[t] = "dropped" \/ fut[t] = "resolved")

\* A future resolved after a skipped job and a panicking one used the pool.
C11_Witness ==
    \E t, u \in Tasks :
      /\ t # u
      /\ state[u] \in {"Cancelled", "Panicked"}
      /\ Holder(u) = {}
      /\ fut[t] = "resolved"
      /\ result[t].tag \in {"Ok", "Err"}

\* C12: nothing is done for a future that is never polled: as long as the
\* future of a call was not polled (and when it is dropped unpolled), no pool
\* handle was taken for it, no job of it is on a queue or on a thread, its
\* computation was not called and the gauge was never touched for it; a task is
\* Queued only once its future was polled, and with no future polled at all not
\* even the pool is built.
NeverPolled(t) ==
    \/ fut[t] = "created"
    \/ fut[t] = "dropped" /\ abandoned_in[t] = "None"

InQueue(t) == \E p \in Pools : \E i \in 1..Len(queue[p]) : queue[p][i] = t

C12_NoWorkUnlessPolled ==
    /\ \A t \in Tasks :
         NeverPolled(t) =>
           /\ state[t] = "None"
           /\ handle[t] = 0
           /\ ~InQueue(t)
           /\ Holder(t) = {}
           /\ invoked[t] = 0
           /\ events[t] = <<>>
           /\ ~rx_dropped[t] /\ ~tx_dropped[t] /\ chan_val[t] = 0
    /\ (\A t \in Tasks : NeverPolled(t)) =>
         pools_built = 0 /\ cell = 0 /\ active_search_threads_count = 0

\* A future dropped without a poll left no trace, while another submission ran.
C12_Witness ==
    \E t, u \in Tasks :
      /\ fut[t] = "dropped"
      /\ abandoned_in[t] = "None"
      /\ state[t] = "None"
      /\ state[u] \in {"Completed", "Panicked"}
      /\ \A w \in Workers : wpc[w] = "idle"

\* C13: Err(Panicked) reaches a caller only for a panic of its own computation:
\* a future that holds Err belongs to a computation that panics, was called
\* once and ended Panicked; a task whose future is still held is never skipped
\* by the is_closed check; and the sender of an awaited task is dropped unsent
\* only by its own panic, whatever happens to the other tasks.
C13_ErrOnlyFromOwnPanic ==
    \A t \in Tasks :
      /\ result[t] = ErrPanicked =>
           /\ cpu_heavy_task[t].panics
           /\ state[t] = "Panicked"
           /\ invoked[t] = 1
      /\ state[t] = "Cancelled" => fut[t] = "dropped" /\ result[t] = Pending
      /\ (tx_dropped[t] /\ fut[t] \in {"awaiting", "resolved"}) => state[t] = "Panicked"

\* Err for a panic of one's own, next to a skipped job and none for the others.
C13_Witness ==
    \E t, u \in Tasks :
      /\ t # u
      /\ result[t] = ErrPanicked
      /\ state[u] = "Cancelled"
      /\ \A v \in Tasks \ {t} : result[v] # ErrPanicked

\* C14: a computation is called at most once in the life of its task: a job is
\* on the queue or on one thread, never twice; a task that reached Completed,
\* Panicked or Cancelled stays there (no retry after a panic); and a future
\* resolves at most once, its result never changing afterwards.
Occurrences(t) ==
    SumOver([p \in Pools |-> Count(queue[p], t)], Pools) + Cardinality(Holder(t))

C15_BacklogSelfDrains ==
    /\ [](\A t \in Tasks :
           abandoned_in[t] \in {"Queued", "Picked"} =>
             /\ state[t] \in {"Queued", "Cancelled"}
             /\ events[t] = <<>>
             /\ \A w \in Workers : job[w] = t => wpc[w] = "check" /\ entered[w] = 0)
    /\ [](\A t \in Tasks : InQueue(t) => state[t] = "Queued")
    /\ []<>(/\ \A t \in Tasks : state[t] \notin {"Queued", "Running"}
            /\ \A p \in Pools : queue[p] = <<>>)

\* Every caller has gone; the pool is idle, its queue empty, a skipped task behind it.
C15_Witness ==
    /\ \A t \in Tasks : fut[t] = "dropped" /\ state[t] \in Terminal
    /\ \E t \in Tasks : abandoned_in[t] = "Queued" /\ state[t] = "Cancelled"
    /\ \A p \in Pools : queue[p] = <<>>
    /\ \A w \in Workers : wpc[w] = "idle"

\* C16: the computation is called only by a pool worker thread, in a step of
\* that worker which leaves the caller's future where it was; the dispatch step
\* is always possible for a caller that reached it, whatever the workers are
\* doing, and it ends with the task queued, not run, and the future awaiting:
\* awaiting the result is the only place where the caller waits for the pool.
C16_RunsOnPoolWorkerOnly ==
    /\ [](\A t \in Tasks :
           /\ ran_on[t] \in Workers \cup {0}
           /\ (invoked[t] > 0 <=> ran_on[t] \in Workers)
           /\ fut[t] \in {"created", "building", "spawning"} =>
                state[t] = "None" /\ invoked[t] = 0
           /\ fut[t] = "spawning" => ENABLED spawn_blocking(t))
    /\ [][\A t \in Tasks :
            /\ invoked'[t] # invoked[t] =>
                 /\ \E w \in Workers :
                      job[w] = t /\ wpc[w] = "exec" /\ w \in alive /\ ran_on'[t] = w
                 /\ fut'[t] = fut[t]
                 /\ result'[t] = result[t]
            /\ fut[t] = "spawning" /\ fut'[t] = "awaiting" =>
                 /\ state'[t] = "Queued"
                 /\ InQueue(t)'
                 /\ invoked'[t] = 0
                 /\ result'[t] = Pending
                 /\ wpc' = wpc]_vars

\* A worker has called t's computation while t's caller was awaiting, and
\* another caller has dispatched and is awaiting while that worker is busy.
C16_Witness ==
    \E t, u \in Tasks : \E w \in Workers :
      /\ t # u
      /\ invoked[t] = 1 /\ ran_on[t] = w /\ job[w] = t /\ wpc[w] \in {"send", "unwind"}
      /\ fut[t] = "awaiting"
      /\ state[u] = "Queued" /\ fut[u] = "awaiting" /\ invoked[u] = 0

\* C17: each panic of a running task is logged once by the pool's panic handler,
\* whether or not the caller is still there; nothing is logged for a task that
\* is Completed or Cancelled (or not yet run); the log step touches neither the
\* caller's future nor its result, and a caller only ever sees Ok or
\* Err(Panicked), never the panic itself.
C17_PanicLoggedNotRaised ==
    /\ [](\A t \in Tasks :
           /\ panic_logs[t] \in {0, 1}
           /\ panic_logs[t] = 1 => state[t] = "Panicked" /\ cpu_heavy_task[t].panics
           /\ state[t] = "Panicked" /\ Holder(t) = {} => panic_logs[t] = 1
           /\ result[t] = Pending \/ result[t].tag \in {"Ok", "Err"}
           /\ result[t] = ErrPanicked => state[t] = "Panicked")
    /\ [][\A t \in Tasks :
            panic_logs'[t] # panic_logs[t] =>
              /\ \E w \in Workers : job[w] = t /\ wpc[w] = "handler"
              /\ fut' = fut
              /\ result' = result
              /\ chan_val' = chan_val /\ tx_dropped' = tx_dropped]_vars

\* One panic was logged after its caller had gone away, another one was logged
\* and its caller holds Err(Panicked).
C17_Witness ==
    \E t, u \in Tasks :
      /\ state[t] = "Panicked" /\ abandoned_in[t] = "Running" /\ fut[t] = "dropped"
      /\ panic_logs[t] = 1 /\ result[t] = Pending
      /\ state[u] = "Panicked" /\ fut[u] = "resolved" /\ result[u] = ErrPanicked
      /\ panic_logs[u] = 1

\* C18: on the worker the caller's span is entered before the gauge goes up and
\* exited after the gauge goes down, with the computation in between, whether it
\* returns or panics; the span a worker is in is the one captured by the caller
\* of the task it runs; a task that ends Cancelled never has its span entered.
C18_SpanAroundGauge ==
    \A t \in Tasks :
      /\ events[t] \in {<<>>, <<"enter", "inc">>,
                        <<"enter", "inc", "call", "dec", "exit">>}
      /\ state[t] \in {"None", "Queued", "Cancelled"} => events[t] = <<>>
      /\ state[t] = "Running" => events[t] = <<"enter", "inc">>
      /\ state[t] \in {"Completed", "Panicked"} =>
           events[t] = <<"enter", "inc", "call", "dec", "exit">>
      /\ \A w \in Workers :
           /\ entered[w] # 0 <=> wpc[w] = "exec"
           /\ wpc[w] = "exec" => entered[w] = span(job[w]) /\ span(job[w]) = job[w]
      /\ active_search_threads_count = Cardinality({w \in Workers : entered[w] # 0})

\* One task returned and one panicked, both with the whole bracket behind them,
\* while a worker is inside the span of the task it is running or has left it.
C18_Witness ==
    \E t, u \in Tasks :
      /\ state[t] = "Completed" /\ state[u] = "Panicked"
      /\ events[t] = <<"enter", "inc", "call", "dec", "exit">>
      /\ events[u] = events[t]
      /\ \A w \in Workers : entered[w] = 0

====
